---- MODULE Spec2Model ----
(***************************************************************************)
(* Balance-ledger service of server.js: one JSON file (balances.json)      *)
(* holding every player's balance and history, reloaded and rewritten in   *)
(* full by every request handler.                                          *)
(*                                                                         *)
(* Strings are sequences of one-character strings, so that trim() and      *)
(* parseInt() are computed rather than assumed.  A request field that is   *)
(* absent behaves like the empty string in every handler ((x || '') for    *)
(* text, parseInt(undefined) = NaN for numbers), so <<>> stands for both.  *)
(* Request fields are strings or absent.                                   *)
(***************************************************************************)
EXTENDS Integers, Sequences, FiniteSets, TLC

\* ------------------------------------------------------------- bounds
\* Largest number of history entries the file may hold in total.
MaxEntries == 3
\* The same where several processes share the file.
MaxSharedEntries == 2
\* Largest number of history entries in a file that is lost by becoming
\* unparseable.
MaxLostEntries == 2
\* Largest number of history entries in the file where one process has
\* several requests in flight.
MaxLoopEntries == 3

\* ------------------------------------------------------------ strings
WhiteSpace == {" ", "\t"}
Digits == {"0", "1", "2", "3", "4", "5", "6", "7", "8", "9"}

DigitVal(c) ==
  CASE c = "0" -> 0 [] c = "1" -> 1 [] c = "2" -> 2 [] c = "3" -> 3
    [] c = "4" -> 4 [] c = "5" -> 5 [] c = "6" -> 6 [] c = "7" -> 7
    [] c = "8" -> 8 [] c = "9" -> 9

RECURSIVE TrimStart(_)
TrimStart(s) ==
  IF s # <<>> /\ Head(s) \in WhiteSpace THEN TrimStart(Tail(s)) ELSE s

RECURSIVE TrimEnd(_)
TrimEnd(s) ==
  IF s # <<>> /\ s[Len(s)] \in WhiteSpace
    THEN TrimEnd(SubSeq(s, 1, Len(s) - 1))
    ELSE s

\* String.prototype.trim
Trim(s) == TrimEnd(TrimStart(s))

\* (x || '').trim() || dflt
TrimOr(s, dflt) == IF Trim(s) = <<>> THEN dflt ELSE Trim(s)

\* The value of the longest prefix of s made of digits, read left to right
\* from the accumulator acc.
RECURSIVE DigitsValue(_, _)
DigitsValue(s, acc) ==
  IF s # <<>> /\ Head(s) \in Digits
    THEN DigitsValue(Tail(s), 10 * acc + DigitVal(Head(s)))
    ELSE acc

\* parseInt(value, 10): leading white space is skipped, one sign is read,
\* then the digits up to the first character that is not one; NaN when
\* there is no digit.
ParseInt(s) ==
  LET t == TrimStart(s)
      neg == t # <<>> /\ Head(t) = "-"
      signed == t # <<>> /\ Head(t) \in {"-", "+"}
      d == IF signed THEN Tail(t) ELSE t
  IN  IF d = <<>> \/ Head(d) \notin Digits
        THEN [nan |-> TRUE, n |-> 0]
        ELSE [nan |-> FALSE,
              n |-> IF neg THEN 0 - DigitsValue(d, 0) ELSE DigitsValue(d, 0)]

\* parseInteger: null for NaN, the integer otherwise.
parseInteger(value) ==
  LET parsed == ParseInt(value)
  IN  IF parsed.nan THEN [null |-> TRUE, n |-> 0]
                    ELSE [null |-> FALSE, n |-> parsed.n]

\* The string literals of the program.
SYSTEM == <<"s", "y", "s", "t", "e", "m">>
AUTO_CREATED == <<"a", "u", "t", "o", "-", "c", "r", "e", "a", "t", "e", "d",
                  " ", "p", "r", "o", "f", "i", "l", "e">>
MANUAL_SAVE == <<"m", "a", "n", "u", "a", "l", "-", "s", "a", "v", "e">>
SESSION_SAVE == <<"s", "e", "s", "s", "i", "o", "n", " ", "s", "a", "v", "e">>
UNKNOWN == <<"u", "n", "k", "n", "o", "w", "n">>
GAME_CHARGE == <<"g", "a", "m", "e", " ", "c", "h", "a", "r", "g", "e">>
GAME_PAYOUT == <<"g", "a", "m", "e", " ", "p", "a", "y", "o", "u", "t">>
ADMIN_ADJUST == <<"a", "d", "m", "i", "n", "-", "a", "d", "j", "u", "s", "t">>
ADMIN_ADJUSTMENT == <<"a", "d", "m", "i", "n", " ", "a", "d", "j", "u", "s",
                      "t", "m", "e", "n", "t">>

\* ------------------------------------------------- the store and the file
\* The store in memory: data.players maps a username to {balance, history}.
EmptyStore == [players |-> <<>>]

HasPlayer(data, username) == username \in DOMAIN data.players

\* The text of the file.  JSON.stringify writes one member per player, each
\* with its balance and its history array; JSON.parse rebuilds the object
\* from the members.  A file can also be absent, hold text that does not
\* parse, or parse to a value without a players object.
Member(username, player) ==
  [key |-> username, balance |-> player.balance, history |-> player.history]

Stringify(data) ==
  [exists |-> TRUE, parses |-> TRUE, hasPlayers |-> TRUE,
   members |-> {Member(u, data.players[u]) : u \in DOMAIN data.players}]

Parse(text) ==
  LET keys == {m.key : m \in text.members}
      of(u) == CHOOSE m \in text.members : m.key = u
  IN  [players |-> [u \in keys |->
                      [balance |-> of(u).balance, history |-> of(u).history]]]

AbsentFile == [exists |-> FALSE, parses |-> FALSE, hasPlayers |-> FALSE,
               members |-> {}]

\* fs.writeFileSync(DATA_FILE, JSON.stringify(data, null, 2))
saveData(data) == Stringify(data)

\* ensureDataFile: the file after the call.
ensureDataFile(f) == IF ~f.exists THEN Stringify(EmptyStore) ELSE f

\* loadData returning the fallback of the catch branch without writing it.
loadData_NoRewrite(f) ==
  LET g == ensureDataFile(f)
      w == IF f.exists THEN 0 ELSE 1
  IN  IF g.parses
        THEN [data |-> IF g.hasPlayers THEN Parse(g) ELSE EmptyStore,
              file |-> g, writes |-> w]
        ELSE [data |-> EmptyStore, file |-> g, writes |-> w]

\* loadData taking the players of every parsed file for missing.
loadData_ResetsPlayers(f) ==
  LET g == ensureDataFile(f)
      w == IF f.exists THEN 0 ELSE 1
  IN  IF g.parses
        THEN [data |-> EmptyStore, file |-> g, writes |-> w]
        ELSE [data |-> EmptyStore, file |-> Stringify(EmptyStore),
              writes |-> w + 1]

\* loadData: the store returned, the file after the call and the number of
\* writes made.
loadData(f) ==
  LET g == ensureDataFile(f)
      w == IF f.exists THEN 0 ELSE 1
  IN  IF g.parses
        THEN [data |-> IF g.hasPlayers THEN Parse(g) ELSE EmptyStore,
              file |-> g, writes |-> w]
        ELSE [data |-> EmptyStore, file |-> Stringify(EmptyStore),
              writes |-> w + 1]

\* appendHistory assigning the entry as the whole history.
appendHistory_Overwrite(player, entry) ==
  [player EXCEPT !.history = <<entry>>]

\* appendHistory: the player after the push.
appendHistory(player, entry) ==
  [player EXCEPT !.history = Append(@, entry)]

Entry(ts, game, delta, desc) ==
  [ts |-> ts, game |-> game, delta |-> delta, desc |-> desc]

\* The assignment replacing players by an object with the one player.
SetPlayer_DropOthers(data, username, player) ==
  [players |-> [u \in {username} |-> player]]

\* data with data.players[username] set to player.
SetPlayer(data, username, player) ==
  [players |-> [u \in DOMAIN data.players \cup {username} |->
                  IF u = username THEN player ELSE data.players[u]]]

\* delete replacing the players object: every player is removed.
DeletePlayer_All(data, username) == EmptyStore

\* delete naming a key that is not the username: nothing is removed.
DeletePlayer_WrongKey(data, username) == data

\* delete data.players[username]
DeletePlayer(data, username) ==
  [players |-> [u \in DOMAIN data.players \ {username} |-> data.players[u]]]

\* The new record with the starting grant recorded as the entry's delta.
NewPlayer_GrantDelta(ts) ==
  appendHistory([balance |-> 1000, history |-> <<>>],
                Entry(ts, SYSTEM, 1000, AUTO_CREATED))

\* The new record starting from 0.
NewPlayer_ZeroBalance(ts) ==
  appendHistory([balance |-> 0, history |-> <<>>],
                Entry(ts, SYSTEM, 0, AUTO_CREATED))

\* The record getOrCreatePlayer gives a username it does not find.
NewPlayer(ts) ==
  appendHistory([balance |-> 1000, history |-> <<>>],
                Entry(ts, SYSTEM, 0, AUTO_CREATED))

\* getOrCreatePlayer with saveData after the if: it writes the file for a
\* player it found too.
getOrCreatePlayer_AlwaysSaves(data, username, f, ts) ==
  LET created == IF ~HasPlayer(data, username)
                   THEN SetPlayer(data, username, NewPlayer(ts))
                   ELSE data
  IN  [data |-> created, file |-> saveData(created), writes |-> 1]

\* getOrCreatePlayer over the store loaded from file f at time ts: the store
\* and the file after the call and the number of writes made.
getOrCreatePlayer(data, username, f, ts) ==
  IF ~HasPlayer(data, username)
    THEN LET created == SetPlayer(data, username, NewPlayer(ts))
         IN  [data |-> created, file |-> saveData(created), writes |-> 1]
    ELSE [data |-> data, file |-> f, writes |-> 0]

\* The conditions of the handlers on a parsed balance or amount.
\* The balance condition without its < 0.
InvalidBalance_AllowsNegative(balanceValue) == balanceValue.null

\* balanceValue === null || balanceValue < 0
InvalidBalance(balanceValue) == balanceValue.null \/ balanceValue.n < 0

\* The amount condition with < for <=.
InvalidAmount_AllowsZero(amountValue) ==
  amountValue.null \/ amountValue.n < 0

\* amountValue === null || amountValue <= 0
InvalidAmount(amountValue) == amountValue.null \/ amountValue.n <= 0

\* The funds condition adding the amount.
InsufficientFunds_WrongSign(player, amountValue) ==
  player.balance + amountValue.n < 0

\* The funds condition with <= for <.
InsufficientFunds_OrEqual(player, amountValue) ==
  player.balance - amountValue.n <= 0

\* player.balance - amountValue < 0
InsufficientFunds(player, amountValue) == player.balance - amountValue.n < 0

\* delta computed after player.balance was assigned.
AdjustDelta_AfterAssign(balanceValue, player) ==
  balanceValue.n - balanceValue.n

\* const delta = balanceValue - player.balance
AdjustDelta(balanceValue, player) == balanceValue.n - player.balance

\* ------------------------------------------------------------ responses
\* res.json / res.status(400).json: balance and history are sequences of
\* length 0 (field not in the body) or 1; users is the listing.
Response(status, ok, error, balance, history, users) ==
  [status |-> status, ok |-> ok, error |-> error, balance |-> balance,
   history |-> history, users |-> users]

BadRequest(error) == Response(400, FALSE, error, <<>>, <<>>, {})
Refused(error) == Response(200, FALSE, error, <<>>, <<>>, {})
Ok == Response(200, TRUE, "", <<>>, <<>>, {})
OkBalance(balance) == Response(200, TRUE, "", <<balance>>, <<>>, {})
OkDetail(player) ==
  Response(200, TRUE, "", <<player.balance>>, <<player.history>>, {})
OkUsers(data) ==
  Response(200, TRUE, "", <<>>, <<>>,
           {<<u, data.players[u].balance>> : u \in DOMAIN data.players})

\* What a handler leaves behind: the file, dataCache, the response and the
\* number of writes it made to the file.
Outcome(f, cache, response, w) ==
  [file |-> f, cache |-> cache, resp |-> response, writes |-> w]

\* ------------------------------------------------------------- handlers
\* Each handler maps the file f, the process's dataCache, the request r and
\* the time ts of the call to its outcome.  A request is
\* [op, username, value, game, desc]; value is the balance or amount field
\* and desc doubles as the note of set-balance.

\* app.get('/api/profile')
getProfile(f, cache, r, ts) ==
  LET username == Trim(r.username)
      l == loadData(f)
      g == getOrCreatePlayer(l.data, username, l.file, ts)
      player == g.data.players[username]
  IN  IF username = <<>>
        THEN Outcome(f, cache, BadRequest("USERNAME_REQUIRED"), 0)
        ELSE Outcome(saveData(g.data), g.data, OkBalance(player.balance),
                     l.writes + g.writes + 1)

\* The save handler recording the change of balance as the entry's delta.
postProfileSave_RecordsDelta(f, cache, r, ts) ==
  LET username == Trim(r.username)
      balanceValue == parseInteger(r.value)
      l == loadData(f)
      g == getOrCreatePlayer(l.data, username, l.file, ts)
      before == g.data.players[username]
      player == appendHistory(
                  [before EXCEPT !.balance = balanceValue.n],
                  Entry(ts, MANUAL_SAVE, balanceValue.n - before.balance,
                        SESSION_SAVE))
      data == SetPlayer(g.data, username, player)
  IN  IF username = <<>>
        THEN Outcome(f, cache, BadRequest("USERNAME_REQUIRED"), 0)
      ELSE IF InvalidBalance(balanceValue)
        THEN Outcome(f, cache, BadRequest("INVALID_BALANCE"), 0)
      ELSE Outcome(saveData(data), data, Ok, l.writes + g.writes + 1)

\* app.post('/api/profile/save')
postProfileSave(f, cache, r, ts) ==
  LET username == Trim(r.username)
      balanceValue == parseInteger(r.value)
      l == loadData(f)
      g == getOrCreatePlayer(l.data, username, l.file, ts)
      player == appendHistory(
                  [g.data.players[username] EXCEPT !.balance = balanceValue.n],
                  Entry(ts, MANUAL_SAVE, 0, SESSION_SAVE))
      data == SetPlayer(g.data, username, player)
  IN  IF username = <<>>
        THEN Outcome(f, cache, BadRequest("USERNAME_REQUIRED"), 0)
      ELSE IF InvalidBalance(balanceValue)
        THEN Outcome(f, cache, BadRequest("INVALID_BALANCE"), 0)
      ELSE Outcome(saveData(data), data, Ok, l.writes + g.writes + 1)

\* app.post('/api/game/charge')
postGameCharge(f, cache, r, ts) ==
  LET username == Trim(r.username)
      game == TrimOr(r.game, UNKNOWN)
      amountValue == parseInteger(r.value)
      desc == TrimOr(r.desc, GAME_CHARGE)
      l == loadData(f)
      g == getOrCreatePlayer(l.data, username, l.file, ts)
      before == g.data.players[username]
      player == appendHistory(
                  [before EXCEPT !.balance = @ - amountValue.n],
                  Entry(ts, game, 0 - amountValue.n, desc))
      data == SetPlayer(g.data, username, player)
  IN  IF username = <<>>
        THEN Outcome(f, cache, BadRequest("USERNAME_REQUIRED"), 0)
      ELSE IF InvalidAmount(amountValue)
        THEN Outcome(f, cache, BadRequest("INVALID_AMOUNT"), 0)
      ELSE IF InsufficientFunds(before, amountValue)
        THEN Outcome(g.file, g.data, Refused("INSUFFICIENT_FUNDS"),
                     l.writes + g.writes)
      ELSE Outcome(saveData(data), data, OkBalance(player.balance),
                   l.writes + g.writes + 1)

\* app.post('/api/game/payout')
postGamePayout(f, cache, r, ts) ==
  LET username == Trim(r.username)
      game == TrimOr(r.game, UNKNOWN)
      amountValue == parseInteger(r.value)
      desc == TrimOr(r.desc, GAME_PAYOUT)
      l == loadData(f)
      g == getOrCreatePlayer(l.data, username, l.file, ts)
      player == appendHistory(
                  [g.data.players[username] EXCEPT
                     !.balance = @ + amountValue.n],
                  Entry(ts, game, amountValue.n, desc))
      data == SetPlayer(g.data, username, player)
  IN  IF username = <<>>
        THEN Outcome(f, cache, BadRequest("USERNAME_REQUIRED"), 0)
      ELSE IF InvalidAmount(amountValue)
        THEN Outcome(f, cache, BadRequest("INVALID_AMOUNT"), 0)
      ELSE Outcome(saveData(data), data, OkBalance(player.balance),
                   l.writes + g.writes + 1)

\* app.get('/api/admin/users')
getAdminUsers(f, cache, r, ts) ==
  LET l == loadData(f)
  IN  Outcome(l.file, l.data, OkUsers(l.data), l.writes)

\* app.get('/api/admin/user-detail')
getAdminUserDetail(f, cache, r, ts) ==
  LET username == Trim(r.username)
      l == loadData(f)
      g == getOrCreatePlayer(l.data, username, l.file, ts)
      player == g.data.players[username]
  IN  IF username = <<>>
        THEN Outcome(f, cache, BadRequest("USERNAME_REQUIRED"), 0)
        ELSE Outcome(saveData(g.data), g.data, OkDetail(player),
                     l.writes + g.writes + 1)

\* app.post('/api/admin/set-balance')
postAdminSetBalance(f, cache, r, ts) ==
  LET username == Trim(r.username)
      balanceValue == parseInteger(r.value)
      note == TrimOr(r.desc, ADMIN_ADJUSTMENT)
      l == loadData(f)
      g == getOrCreatePlayer(l.data, username, l.file, ts)
      before == g.data.players[username]
      delta == AdjustDelta(balanceValue, before)
      player == appendHistory([before EXCEPT !.balance = balanceValue.n],
                              Entry(ts, ADMIN_ADJUST, delta, note))
      data == SetPlayer(g.data, username, player)
  IN  IF username = <<>>
        THEN Outcome(f, cache, BadRequest("USERNAME_REQUIRED"), 0)
      ELSE IF InvalidBalance(balanceValue)
        THEN Outcome(f, cache, BadRequest("INVALID_BALANCE"), 0)
      ELSE Outcome(saveData(data), data, OkBalance(player.balance),
                   l.writes + g.writes + 1)

\* app.post('/api/admin/delete-user')
postAdminDeleteUser(f, cache, r, ts) ==
  LET username == Trim(r.username)
      l == loadData(f)
      data == DeletePlayer(l.data, username)
  IN  IF username = <<>>
        THEN Outcome(f, cache, BadRequest("USERNAME_REQUIRED"), 0)
      ELSE IF HasPlayer(l.data, username)
        THEN Outcome(saveData(data), data, Ok, l.writes + 1)
      ELSE Outcome(l.file, l.data, Ok, l.writes)

\* The handler of request r.
Handle(f, cache, r, ts) ==
  CASE r.op = "profile" -> getProfile(f, cache, r, ts)
    [] r.op = "save" -> postProfileSave(f, cache, r, ts)
    [] r.op = "charge" -> postGameCharge(f, cache, r, ts)
    [] r.op = "payout" -> postGamePayout(f, cache, r, ts)
    [] r.op = "users" -> getAdminUsers(f, cache, r, ts)
    [] r.op = "detail" -> getAdminUserDetail(f, cache, r, ts)
    [] r.op = "set" -> postAdminSetBalance(f, cache, r, ts)
    [] r.op = "delete" -> postAdminDeleteUser(f, cache, r, ts)

\* ---------------------------------------------------------------- inputs
\* The request fields tried: an absent and a blank username, one that needs
\* no trimming and one that does; values that do not parse, are negative, are zero and
\* are positive; a blank and a padded game name.
RawUsernames == {<<>>, <<" ">>, <<"a">>, <<" ", "b", " ">>}
RawBalances == {<<"x">>, <<"-", "5">>, <<"0">>, <<"1", "5", "0", "0">>}
RawCharges == {<<"x">>, <<"0">>, <<"2", "0", "0">>, <<"1", "0", "0", "0">>,
               <<"1", "5", "0", "0">>}
RawPayouts == {<<"x">>, <<"-", "5">>, <<"5", "0">>}
RawGames == {<<>>, <<"s", " ">>}
RawDescs == {<<>>}
RawNotes == {<<>>}
\* The instants the wall clock shows, as numbers in their order.
Instants == {0, 1}

Usernames == {Trim(u) : u \in RawUsernames} \ {<<>>}

Request(op, username, value, game, desc) ==
  [op |-> op, username |-> username, value |-> value, game |-> game,
   desc |-> desc]

NoRequest == Request("none", <<>>, <<>>, <<>>, <<>>)

\* The server processes sharing the file, and the requests they are sent.
Procs == {"p", "q"}
SharedUsernames == {<<"a">>, <<" ", "b", " ">>}
SharedRequests ==
  {Request("charge", u, <<"1", "0", "0", "0">>, <<>>, <<>>) :
     u \in SharedUsernames}
  \cup {Request("payout", u, <<"5", "0">>, <<>>, <<>>) :
          u \in SharedUsernames}
  \cup {Request("save", <<"a">>, b, <<>>, <<>>) :
          b \in {<<"-", "5">>, <<"0">>}}
  \cup {Request("set", <<"a">>, <<"1", "5", "0", "0">>, <<>>, <<>>),
        Request("delete", <<"a">>, <<>>, <<>>, <<>>),
        Request("profile", <<" ", "b", " ">>, <<>>, <<>>, <<>>)}

\* ----------------------------------------------------------------- state
VARIABLES
  file,       \* balances.json
  dataCache,  \* the process's dataCache
  now,        \* the wall clock read by new Date()
  req,        \* the request just served, NoRequest once answered
  resp,       \* the response it was given
  prevFile,   \* the file as that request found it
  writes,     \* the number of writes to the file that request made
  acct,       \* per username: charges and payouts accepted since creation
  trail,      \* the run of delete requests the last requests form
  \* Several server processes started on the same balances.json:
  pc,         \* per process: "idle", "loaded" (past loadData) or "done"
  pcache,     \* per process: its dataCache while it handles a request
  preq,       \* per process: the request it handles
  presp,      \* per process: the response it gave
  pbase,      \* per process: the store as its loadData returned it
  store       \* a store in memory handed to saveData outside any request

seqVars == <<dataCache, req, resp, prevFile, writes, acct, trail, store>>
procVars == <<pc, pcache, preq, presp, pbase>>
vars == <<file, now, seqVars, procVars>>

RECURSIVE SumEntries(_)
SumEntries(members) ==
  IF members = {} THEN 0
  ELSE LET m == CHOOSE x \in members : TRUE
       IN  Len(m.history) + SumEntries(members \ {m})

\* The model's bound on the file a request may leave.
Bounded(f) == SumEntries(f.members) <= MaxEntries
SharedBounded(f) == SumEntries(f.members) <= MaxSharedEntries

\* The record of username in file f (the file parses).
Rec(f, username) == Parse(f).players[username]
InFile(f, username) == f.parses /\ HasPlayer(Parse(f), username)

\* acct after request r answered by response: the sums of the accepted
\* charge and payout amounts of a player since its creation, kept while
\* nothing but charges and payouts changed it (pure), and whether a save
\* was accepted for it since its creation (saved).
FreshAcct == [pure |-> TRUE, charged |-> 0, paid |-> 0, saved |-> FALSE]

NextAcct(r, response) ==
  LET u == Trim(r.username)
      amount == parseInteger(r.value).n
      \* a player the request created starts afresh
      since == IF InFile(file, u) THEN acct[u] ELSE FreshAcct
  IN  IF response.status = 400 \/ u \notin Usernames THEN acct
      ELSE CASE r.op = "delete" -> [acct EXCEPT ![u] = FreshAcct]
             [] r.op \in {"save", "set"} ->
                  [acct EXCEPT ![u] = [pure |-> FALSE, charged |-> 0,
                                      paid |-> 0,
                                      saved |-> since.saved \/ r.op = "save"]]
             [] r.op = "charge" /\ response.ok /\ since.pure ->
                  [acct EXCEPT ![u] = [since EXCEPT !.charged = @ + amount]]
             [] r.op = "payout" /\ since.pure ->
                  [acct EXCEPT ![u] = [since EXCEPT !.paid = @ + amount]]
             [] OTHER -> [acct EXCEPT ![u] = since]

\* trail after request r: the username of the run of consecutive accepted
\* delete requests ending at r (dels of them, counted up to 2), or, when r
\* is the first request naming that username after such a run, the run
\* with revived set; had tells whether the first delete of the run removed
\* a record.
NoTrail == [user |-> <<>>, dels |-> 0, revived |-> FALSE, had |-> FALSE]

NextTrail(r, response) ==
  LET u == Trim(r.username)
  IN  IF r.op = "delete" /\ response.ok
        THEN IF trail.user = u /\ ~trail.revived
               THEN [trail EXCEPT !.dels = IF @ < 2 THEN @ + 1 ELSE 2]
               ELSE [user |-> u, dels |-> 1, revived |-> FALSE,
                     had |-> InFile(file, u)]
      ELSE IF /\ trail.dels > 0 /\ ~trail.revived /\ trail.user = u
              /\ r.op \in {"profile", "detail", "save", "charge", "payout",
                           "set"}
              /\ response.status = 200
        THEN [trail EXCEPT !.revived = TRUE]
      ELSE NoTrail

\* The process once started: lines 57-58 have run on no file.
Started ==
  /\ file = ensureDataFile(AbsentFile)
  /\ dataCache = loadData(ensureDataFile(AbsentFile)).data
  /\ now = 0
  /\ req = NoRequest
  /\ resp = Ok
  /\ prevFile = file
  /\ writes = 0
  /\ acct = [u \in Usernames |-> FreshAcct]
  /\ trail = NoTrail
  /\ pc = [p \in Procs |-> "idle"]
  /\ pcache = [p \in Procs |-> loadData(ensureDataFile(AbsentFile)).data]
  /\ preq = [p \in Procs |-> NoRequest]
  /\ presp = [p \in Procs |-> Ok]
  /\ pbase = [p \in Procs |-> EmptyStore]

Init == Started /\ store = EmptyStore

\* One request served from arrival to response by the single process.
Serve(r, out) ==
  /\ req = NoRequest
  /\ Bounded(out.file)
  /\ file' = out.file
  /\ dataCache' = out.cache
  /\ resp' = out.resp
  /\ writes' = out.writes
  /\ req' = r
  /\ prevFile' = file
  /\ acct' = NextAcct(r, out.resp)
  /\ trail' = NextTrail(r, out.resp)
  /\ UNCHANGED <<now, procVars, store>>

Profile ==
  \E u \in RawUsernames :
    LET r == Request("profile", u, <<>>, <<>>, <<>>)
    IN  Serve(r, getProfile(file, dataCache, r, now))

ProfileSave ==
  \E u \in RawUsernames, b \in RawBalances :
    LET r == Request("save", u, b, <<>>, <<>>)
    IN  Serve(r, postProfileSave(file, dataCache, r, now))

GameCharge ==
  \E u \in RawUsernames, a \in RawCharges, g \in RawGames, d \in RawDescs :
    LET r == Request("charge", u, a, g, d)
    IN  Serve(r, postGameCharge(file, dataCache, r, now))

GamePayout ==
  \E u \in RawUsernames, a \in RawPayouts, g \in RawGames, d \in RawDescs :
    LET r == Request("payout", u, a, g, d)
    IN  Serve(r, postGamePayout(file, dataCache, r, now))

AdminUsers ==
  LET r == Request("users", <<>>, <<>>, <<>>, <<>>)
  IN  Serve(r, getAdminUsers(file, dataCache, r, now))

AdminUserDetail ==
  \E u \in RawUsernames :
    LET r == Request("detail", u, <<>>, <<>>, <<>>)
    IN  Serve(r, getAdminUserDetail(file, dataCache, r, now))

AdminSetBalance ==
  \E u \in RawUsernames, b \in RawBalances, n \in RawNotes :
    LET r == Request("set", u, b, <<>>, n)
    IN  Serve(r, postAdminSetBalance(file, dataCache, r, now))

AdminDeleteUser ==
  \E u \in RawUsernames :
    LET r == Request("delete", u, <<>>, <<>>, <<>>)
    IN  Serve(r, postAdminDeleteUser(file, dataCache, r, now))

\* The response has gone out; the process waits for the next request.
Deliver ==
  /\ req # NoRequest
  /\ req' = NoRequest
  /\ resp' = Ok
  /\ prevFile' = file
  /\ writes' = 0
  /\ UNCHANGED <<file, dataCache, now, acct, trail, procVars, store>>

\* Time passes between requests.
Tick ==
  /\ req = NoRequest
  /\ \E t \in Instants : t > now /\ now' = t
  /\ UNCHANGED <<file, seqVars, procVars>>

Next ==
  \/ Profile
  \/ ProfileSave
  \/ GameCharge
  \/ GamePayout
  \/ AdminUsers
  \/ AdminUserDetail
  \/ AdminSetBalance
  \/ AdminDeleteUser
  \/ Deliver
  \/ Tick

Spec == Init /\ [][Next]_vars

\* -------------------------------------------- a file that does not parse
\* balances.json holding text JSON.parse throws on.
CorruptFile == [exists |-> TRUE, parses |-> FALSE, hasPlayers |-> FALSE,
                members |-> {}]

\* What acct keeps of a player whose record went with the file: nothing of
\* its charges and payouts, until a request creates it again.
LostAcct == [pure |-> FALSE, charged |-> 0, paid |-> 0, saved |-> FALSE]

\* Between two requests something outside the server leaves the file
\* unparseable.
Corrupt ==
  /\ req = NoRequest
  /\ file.parses
  /\ SumEntries(file.members) <= MaxLostEntries
  /\ file' = CorruptFile
  /\ acct' = [u \in Usernames |->
                IF InFile(file, u) THEN LostAcct ELSE FreshAcct]
  /\ UNCHANGED <<now, dataCache, req, resp, prevFile, writes, trail, store,
                 procVars>>

NextCorrupt == Next \/ Corrupt

SpecCorrupt == Init /\ [][NextCorrupt]_vars

\* ------------------------------------------- processes sharing the file
\* Each call of fs (readFileSync in loadData, writeFileSync in saveData) is
\* one step; what a handler does between two of them touches only its own
\* process.  After loadData a handler depends on the file only through the
\* store it loaded, so the rest of it is the handler run on that store.
CallsGetOrCreate(r) ==
  r.op \in {"profile", "save", "charge", "payout", "detail", "set"}

\* The handler validates the request and, unless it answers 400, loads the
\* file.
Begin(p) ==
  \E r \in SharedRequests :
    LET out == Handle(file, pcache[p], r, now)
        l == loadData(file)
    IN  /\ pc[p] = "idle"
        /\ preq' = [preq EXCEPT ![p] = r]
        /\ IF out.resp.status = 400
             THEN /\ pc' = [pc EXCEPT ![p] = "done"]
                  /\ presp' = [presp EXCEPT ![p] = out.resp]
                  /\ UNCHANGED <<file, pcache, pbase>>
             ELSE /\ pc' = [pc EXCEPT ![p] = "loaded"]
                  /\ file' = l.file
                  /\ pcache' = [pcache EXCEPT ![p] = l.data]
                  /\ pbase' = [pbase EXCEPT ![p] = l.data]
                  /\ UNCHANGED presp
        /\ UNCHANGED <<now, seqVars>>

\* getOrCreatePlayer does not find the player: it creates it and writes
\* the file.
Create(p) ==
  LET u == Trim(preq[p].username)
      g == getOrCreatePlayer(pcache[p], u, file, now)
  IN  /\ pc[p] = "loaded"
      /\ CallsGetOrCreate(preq[p])
      /\ ~HasPlayer(pcache[p], u)
      /\ SharedBounded(g.file)
      /\ file' = g.file
      /\ pcache' = [pcache EXCEPT ![p] = g.data]
      /\ UNCHANGED <<now, seqVars, pc, preq, presp, pbase>>

\* The rest of the handler reading the file again before its funds
\* condition, as if the condition and the write were one step on the file.
Finish_Reloads(p) ==
  LET u == Trim(preq[p].username)
      out == Handle(file, pcache[p], preq[p], now)
  IN  /\ pc[p] = "loaded"
      /\ CallsGetOrCreate(preq[p]) => HasPlayer(pcache[p], u)
      /\ IF out.writes > 0
           THEN SharedBounded(out.file) /\ file' = out.file
           ELSE UNCHANGED file
      /\ pcache' = [pcache EXCEPT ![p] = out.cache]
      /\ presp' = [presp EXCEPT ![p] = out.resp]
      /\ pc' = [pc EXCEPT ![p] = "done"]
      /\ UNCHANGED <<now, seqVars, preq, pbase>>

\* The rest of the handler: its change to the store it holds, its write of
\* the file if it makes one, and its response.
Finish(p) ==
  LET u == Trim(preq[p].username)
      out == Handle(saveData(pcache[p]), pcache[p], preq[p], now)
  IN  /\ pc[p] = "loaded"
      /\ CallsGetOrCreate(preq[p]) => HasPlayer(pcache[p], u)
      /\ IF out.writes > 0
           THEN SharedBounded(out.file) /\ file' = out.file
           ELSE UNCHANGED file
      /\ pcache' = [pcache EXCEPT ![p] = out.cache]
      /\ presp' = [presp EXCEPT ![p] = out.resp]
      /\ pc' = [pc EXCEPT ![p] = "done"]
      /\ UNCHANGED <<now, seqVars, preq, pbase>>

\* The response has gone out.  dataCache is dead between two requests of a
\* process (every handler that reads it assigns it first), so it is
\* forgotten here.
Return(p) ==
  /\ pc[p] = "done"
  /\ pc' = [pc EXCEPT ![p] = "idle"]
  /\ preq' = [preq EXCEPT ![p] = NoRequest]
  /\ presp' = [presp EXCEPT ![p] = Ok]
  /\ pcache' = [pcache EXCEPT ![p] = EmptyStore]
  /\ pbase' = [pbase EXCEPT ![p] = EmptyStore]
  /\ UNCHANGED <<file, now, seqVars>>

NextShared ==
  \/ \E p \in Procs : Begin(p)
  \/ \E p \in Procs : Create(p)
  \/ \E p \in Procs : Finish(p)
  \/ \E p \in Procs : Return(p)

SpecShared == Init /\ [][NextShared]_vars

\* ------------------------------- one process, several requests in flight
\* The one process with a request on each of its connections (named as the
\* processes are): pc, preq, presp and pbase are per connection, dataCache
\* is the module variable every handler assigns and reads, and prevFile is
\* the file as the handler last dispatched found it.  Each fs call is one
\* step, as above.
LoopBounded(f) == SumEntries(f.members) <= MaxLoopEntries

\* The event loop dispatching whatever the running handler is doing.
MayDispatch_Preempts(c) == TRUE

\* The event loop dispatches a callback only when the call stack is empty:
\* every handler is synchronous code from its first line to res.json, with
\* readFileSync and writeFileSync for its I/O and no await or callback in
\* between, so none is dispatched while another is between its first line
\* and its last.
MayDispatch(c) == \A d \in Procs \ {c} : pc[d] # "loaded"

\* The handler of a request on connection c is dispatched: it validates
\* the request and, unless it answers 400, assigns dataCache = loadData().
Dispatch(c) ==
  \E r \in SharedRequests :
    LET out == Handle(file, dataCache, r, now)
        l == loadData(file)
    IN  /\ pc[c] = "idle"
        /\ MayDispatch(c)
        /\ preq' = [preq EXCEPT ![c] = r]
        /\ IF out.resp.status = 400
             THEN /\ pc' = [pc EXCEPT ![c] = "done"]
                  /\ presp' = [presp EXCEPT ![c] = out.resp]
                  /\ UNCHANGED <<file, dataCache, prevFile, pbase>>
             ELSE /\ pc' = [pc EXCEPT ![c] = "loaded"]
                  /\ file' = l.file
                  /\ dataCache' = l.data
                  /\ prevFile' = file
                  /\ pbase' = [pbase EXCEPT ![c] = l.data]
                  /\ UNCHANGED presp
        /\ UNCHANGED <<now, req, resp, writes, acct, trail, store, pcache>>

\* getOrCreatePlayer(dataCache, username) does not find the player.
CreateInCache(c) ==
  LET u == Trim(preq[c].username)
      g == getOrCreatePlayer(dataCache, u, file, now)
  IN  /\ pc[c] = "loaded"
      /\ CallsGetOrCreate(preq[c])
      /\ ~HasPlayer(dataCache, u)
      /\ LoopBounded(g.file)
      /\ file' = g.file
      /\ dataCache' = g.data
      /\ UNCHANGED <<now, req, resp, prevFile, writes, acct, trail, store,
                     procVars>>

\* The rest of the handler, on dataCache.
Complete(c) ==
  LET u == Trim(preq[c].username)
      out == Handle(saveData(dataCache), dataCache, preq[c], now)
  IN  /\ pc[c] = "loaded"
      /\ CallsGetOrCreate(preq[c]) => HasPlayer(dataCache, u)
      /\ IF out.writes > 0
           THEN LoopBounded(out.file) /\ file' = out.file
           ELSE UNCHANGED file
      /\ dataCache' = out.cache
      /\ presp' = [presp EXCEPT ![c] = out.resp]
      /\ pc' = [pc EXCEPT ![c] = "done"]
      /\ prevFile' = file'
      /\ UNCHANGED <<now, req, resp, writes, acct, trail, store, pcache, preq,
                     pbase>>

\* The response has gone out on connection c.
Respond(c) ==
  /\ pc[c] = "done"
  /\ MayDispatch(c)
  /\ pc' = [pc EXCEPT ![c] = "idle"]
  /\ preq' = [preq EXCEPT ![c] = NoRequest]
  /\ presp' = [presp EXCEPT ![c] = Ok]
  /\ pbase' = [pbase EXCEPT ![c] = EmptyStore]
  /\ UNCHANGED <<file, now, seqVars, pcache>>

NextLoop ==
  \/ \E c \in Procs : Dispatch(c)
  \/ \E c \in Procs : CreateInCache(c)
  \/ \E c \in Procs : Complete(c)
  \/ \E c \in Procs : Respond(c)

SpecLoop == Init /\ [][NextLoop]_vars

\* ------------------------------------------------- saveData then loadData
\* The stores tried: any set of the usernames, each with a balance (valid
\* or not) and a history of up to MaxEntries entries, the file holding at
\* most MaxEntries entries in all.
StoreBalances == {0 - 5, 0, 1000}
StoreEntries == {Entry(0, SYSTEM, 0, AUTO_CREATED),
                 Entry(1, UNKNOWN, 0 - 200, GAME_CHARGE)}

RECURSIVE Histories(_)
Histories(n) ==
  IF n = 0 THEN {<<>>}
  ELSE Histories(n - 1)
         \cup {Append(h, e) : h \in {g \in Histories(n - 1) : Len(g) = n - 1},
                              e \in StoreEntries}

StorePlayers ==
  {[balance |-> b, history |-> h] :
     b \in StoreBalances, h \in Histories(MaxEntries)}

Stores ==
  {s \in UNION {{[players |-> ps] : ps \in [us -> StorePlayers]} :
                  us \in SUBSET Usernames} :
     Bounded(saveData(s))}

InitStore == Started /\ store \in Stores

\* Here req names the call just made and prevFile is the file as that call
\* found it.
Call(name) == Request(name, <<>>, <<>>, <<>>, <<>>)

\* saveData(store): the file is overwritten with the store's text.
Persist ==
  /\ req = NoRequest
  /\ file' = saveData(store)
  /\ prevFile' = file
  /\ writes' = 1
  /\ req' = Call("saveData")
  /\ UNCHANGED <<dataCache, now, resp, acct, trail, store, procVars>>

\* dataCache = loadData()
Load ==
  LET l == loadData(file)
  IN  /\ req = Call("saveData")
      /\ dataCache' = l.data
      /\ file' = l.file
      /\ prevFile' = file
      /\ writes' = l.writes
      /\ req' = Call("loadData")
      /\ UNCHANGED <<now, resp, acct, trail, store, procVars>>

NextStore == Persist \/ Load

SpecStore == InitStore /\ [][NextStore]_vars

\* ------------------------------------------------ reading the last request
\* The username, the parsed value and the player of the request just served.
LastUser == Trim(req.username)
LastValue == parseInteger(req.value)
Had == InFile(prevFile, LastUser)
Has == InFile(file, LastUser)
Prior == Rec(prevFile, LastUser)
After == Rec(file, LastUser)
\* The balance the request found: 1000 when it created the player.
PriorBalance == IF Had THEN Prior.balance ELSE 1000
Last(h) == h[Len(h)]
IsPrefix(a, b) == Len(a) <= Len(b) /\ SubSeq(b, 1, Len(a)) = a
IsAutoCreated(e) == e.game = SYSTEM /\ e.delta = 0 /\ e.desc = AUTO_CREATED
IsDefaultRecord(p) ==
  p.balance = 1000 /\ Len(p.history) = 1 /\ IsAutoCreated(p.history[1])
\* The history the request's own entry is appended to: the player's, or the
\* auto-created entry alone when the request created the player.
IsBaseOf(h) ==
  IF Had THEN IsPrefix(Prior.history, h) /\ Len(h) = Len(Prior.history) + 1
         ELSE Len(h) = 2 /\ IsAutoCreated(h[1])

RECURSIVE SumDeltas(_)
SumDeltas(h) == IF h = <<>> THEN 0 ELSE Head(h).delta + SumDeltas(Tail(h))

Accepted(ops) == req.op \in ops /\ resp.ok
RefusedCharge == req.op = "charge" /\ resp.error = "INSUFFICIENT_FUNDS"
Untouched == file = prevFile /\ writes = 0

\* ---------------------------------------------------------------- claims
\* C1: after any sequence of requests from an empty store, every player
\* record in the file has a balance >= 0.
C1_NonNegative == file.parses /\ \A m \in file.members : m.balance >= 0

\* A charge of a player's whole balance was accepted and left 0.
C1_Witness ==
  Accepted({"charge"}) /\ Has /\ After.balance = 0 /\ PriorBalance > 0

\* C2 as stated: a charge refused with INSUFFICIENT_FUNDS leaves the file
\* exactly as it was and writes nothing.
C2_Original == RefusedCharge => Untouched

\* C2 amended: a charge refused with INSUFFICIENT_FUNDS leaves the file
\* exactly as it was and writes nothing when the player exists; when the
\* username is new, the only change is that its default record (balance
\* 1000, the auto-created entry alone) has been created and written once.
C2_RefusedCharge ==
  RefusedCharge =>
    IF Had THEN Untouched
    ELSE /\ writes = 1
         /\ Has /\ IsDefaultRecord(After)
         /\ file.members = prevFile.members \cup {Member(LastUser, After)}

\* A charge on an existing player with a history of its own was refused.
C2_Witness == RefusedCharge /\ Had /\ Len(Prior.history) >= 2

\* C3 as stated: a successful save, charge, payout or set-balance leaves
\* the player's history one entry longer than before, an absent player
\* counting as an empty history, with the old entries as its prefix.
C3_Original ==
  Accepted({"save", "charge", "payout", "set"}) =>
    LET old == IF Had THEN Prior.history ELSE <<>>
    IN  Has /\ Len(After.history) = Len(old) + 1
            /\ IsPrefix(old, After.history)

\* C3 amended: a successful save, charge, payout or set-balance leaves the
\* player's history one entry longer than before with the old entries as
\* its prefix, a player not yet present counting as having the one
\* auto-created entry its creation appends.
C3_AppendOnly ==
  Accepted({"save", "charge", "payout", "set"}) =>
    Has /\ IsBaseOf(After.history)

\* A mutating call extended a history that already had two entries.
C3_Witness ==
  /\ Accepted({"save", "charge", "payout", "set"})
  /\ Had /\ Len(Prior.history) = 2 /\ Len(After.history) = 3

\* C4 as stated: the entry appended by a save, charge, payout or
\* set-balance has as delta the balance after the operation minus the
\* balance before it, and every player's balance is 1000 plus the sum of
\* the deltas of its history.
C4_Original ==
  /\ Accepted({"save", "charge", "payout", "set"}) =>
       Has /\ Last(After.history).delta = After.balance - PriorBalance
  /\ \A m \in file.members : m.balance = 1000 + SumDeltas(m.history)

\* C4 amended: the entry appended by auto-creation, a charge, a payout or
\* a set-balance has as delta the balance after the operation minus the
\* balance before it (so it is 0 only when the balance did not change),
\* while the entry of a save has delta 0 whatever the save did to the
\* balance; so a player's balance is 1000 plus the sum of the deltas of
\* its history as long as no save was accepted for it since its creation.
C4_DeltaLedger ==
  /\ Accepted({"charge", "payout", "set"}) =>
       Has /\ Last(After.history).delta = After.balance - PriorBalance
  /\ Accepted({"save"}) => Has /\ Last(After.history).delta = 0
  /\ (req.op \in {"profile", "detail", "save", "charge", "payout", "set"}
        /\ resp.status = 200 /\ ~Had) =>
       Has /\ After.history[1].delta = 0
  /\ \A u \in Usernames :
       (InFile(file, u) /\ ~acct[u].saved) =>
         Rec(file, u).balance = 1000 + SumDeltas(Rec(file, u).history)

\* A set-balance lowered a balance that a charge or payout had changed,
\* and the deltas still add up.
C4_Witness ==
  /\ Accepted({"set"}) /\ Had /\ ~acct[LastUser].saved
  /\ Len(After.history) = 3
  /\ After.history[2].delta # 0
  /\ Last(After.history).delta < 0

\* C5 as stated: the first profile, user-detail, save, charge, payout or
\* set-balance naming an absent username leaves a record with balance 1000
\* and a history of exactly the auto-created entry.
C5_Original ==
  (req.op \in {"profile", "detail", "save", "charge", "payout", "set"}
     /\ resp.status = 200 /\ ~Had) =>
    Has /\ IsDefaultRecord(After)

\* C5 amended: the first operation naming an absent username creates the
\* record with balance 1000 and the auto-created entry (game "system",
\* delta 0) as its first history entry; a profile, a user-detail and a
\* refused charge leave exactly that record, while an accepted save,
\* charge, payout or set-balance then applies itself to it: the history is
\* the auto-created entry followed by the operation's one entry and the
\* balance is the operation's result on 1000.
C5_NewPlayer ==
  (req.op \in {"profile", "detail", "save", "charge", "payout", "set"}
     /\ resp.status = 200 /\ ~Had) =>
    /\ Has /\ IsAutoCreated(After.history[1])
    /\ (req.op \in {"profile", "detail"} \/ RefusedCharge) =>
         IsDefaultRecord(After)
    /\ req.op \in {"profile", "detail"} => resp.balance = <<1000>>
    /\ Accepted({"save", "set"}) =>
         Len(After.history) = 2 /\ After.balance = LastValue.n
    /\ Accepted({"charge"}) =>
         Len(After.history) = 2 /\ After.balance = 1000 - LastValue.n
    /\ Accepted({"payout"}) =>
         Len(After.history) = 2 /\ After.balance = 1000 + LastValue.n

\* A user-detail request created the record it returns.
C5_Witness ==
  /\ req.op = "detail" /\ resp.ok /\ ~Had /\ Has
  /\ resp.history = <<After.history>>

C7_SetBalance ==
  (req.op = "set" /\ LastUser # <<>> /\ ~LastValue.null /\ LastValue.n >= 0)
    => /\ resp = OkBalance(LastValue.n)
       /\ Has /\ After.balance = LastValue.n
       /\ IsBaseOf(After.history)
       /\ Last(After.history).game = ADMIN_ADJUST
       /\ Last(After.history).delta = LastValue.n - PriorBalance

\* Setting 1500 on a player at 1000 recorded delta 500.
C7_Witness ==
  /\ Accepted({"set"}) /\ Had /\ Prior.balance = 1000
  /\ After.balance = 1500 /\ Last(After.history).delta = 500

\* C8: a player touched by nothing but charges and payouts since its
\* creation has balance 1000 minus the accepted charges plus the payouts;
\* a charge with a positive amount is refused with INSUFFICIENT_FUNDS
\* exactly when the amount exceeds the current balance, and otherwise
\* takes the amount off; a payout with a positive amount is never refused
\* and adds the amount; the balance an accepted call returns is the one in
\* the file.
C8_ChargePayout ==
  /\ \A u \in Usernames :
       (InFile(file, u) /\ acct[u].pure) =>
         Rec(file, u).balance = 1000 - acct[u].charged + acct[u].paid
  /\ (req.op = "charge" /\ LastUser # <<>> /\ ~LastValue.null
        /\ LastValue.n > 0) =>
       /\ RefusedCharge <=> LastValue.n > PriorBalance
       /\ resp.ok <=> LastValue.n <= PriorBalance
       /\ Has
       /\ After.balance = IF resp.ok THEN PriorBalance - LastValue.n
                                     ELSE PriorBalance
  /\ (req.op = "payout" /\ LastUser # <<>> /\ ~LastValue.null
        /\ LastValue.n > 0) =>
       resp.ok /\ Has /\ After.balance = PriorBalance + LastValue.n
  /\ Accepted({"charge", "payout"}) => resp.balance = <<After.balance>>

\* Charge 200, payout 50, then charge 1000 on a fresh player: the third is
\* refused with the balance still 850.
C8_Witness ==
  /\ RefusedCharge /\ LastValue.n = 1000
  /\ acct[LastUser] = [pure |-> TRUE, charged |-> 200, paid |-> 50,
                       saved |-> FALSE]
  /\ After.balance = 850

\* C9: a request whose username is empty after trimming is answered
\* USERNAME_REQUIRED; otherwise a save or set-balance whose balance does
\* not parse or is < 0 is answered INVALID_BALANCE and a charge or payout
\* whose amount does not parse or is <= 0 is answered INVALID_AMOUNT; in
\* each case with status 400, the file as before, nothing written and no
\* record created.
C9_Validation ==
  /\ (req.op \in {"profile", "detail", "save", "charge", "payout", "set",
                  "delete"} /\ LastUser = <<>>) =>
       resp = BadRequest("USERNAME_REQUIRED") /\ Untouched
  /\ (req.op \in {"save", "set"} /\ LastUser # <<>>
        /\ (LastValue.null \/ LastValue.n < 0)) =>
       resp = BadRequest("INVALID_BALANCE") /\ Untouched /\ (Has <=> Had)
  /\ (req.op \in {"charge", "payout"} /\ LastUser # <<>>
        /\ (LastValue.null \/ LastValue.n <= 0)) =>
       resp = BadRequest("INVALID_AMOUNT") /\ Untouched /\ (Has <=> Had)
  /\ resp.status = 400 => Untouched

\* A charge with a blank username and an amount that does not parse was
\* answered USERNAME_REQUIRED, with players in the file.
C9_Witness ==
  /\ req.op = "charge" /\ LastUser = <<>> /\ LastValue.null
  /\ resp.error = "USERNAME_REQUIRED"
  /\ file.members # {}

\* The record of username in store data, <<>> when there is none.
RecordIn(data, username) ==
  IF HasPlayer(data, username) THEN <<data.players[username]>> ELSE <<>>

\* C10: there is no locking; every write of the file by a process
\* overwrites the whole file with the store that process loaded, changed
\* for the one player its request names and for no other, whatever was
\* written since it loaded; so when a second request for another username
\* loads before the first persists, the first writer's change is lost
\* though both report success.
C10_WholeFileOverwrite ==
  [][file' # file =>
       \E p \in Procs :
         /\ pc[p] = "loaded"
         /\ file' = saveData(pcache'[p])
         /\ \A v \in Usernames \ {Trim(preq[p].username)} :
              RecordIn(pcache'[p], v) = RecordIn(pbase[p], v)]_vars

\* Two payouts for different usernames were both answered ok:true with the
\* new balance; the file holds the second writer's balance and no record
\* at all of the first writer's player, which no request sent here deletes.
C10_Witness ==
  \E p, q \in Procs :
    LET a == Trim(preq[p].username)
        b == Trim(preq[q].username)
    IN  /\ p # q /\ pc[p] = "done" /\ pc[q] = "done"
        /\ preq[p].op = "payout" /\ preq[q].op = "payout"
        /\ presp[p].ok /\ presp[q].ok
        /\ a # b
        /\ \A r \in SharedRequests : r.op = "delete" => Trim(r.username) # a
        /\ InFile(file, b) /\ presp[q].balance = <<Rec(file, b).balance>>
        /\ ~InFile(file, a)

\* The amount of the charge process p handles and the balance its copy of
\* the store holds for the player.
ChargeAmount(p) == parseInteger(preq[p].value).n
HeldBalance(p) == pcache[p].players[Trim(preq[p].username)].balance

\* C11: the funds condition and the debit of a charge are not one step on
\* the file: a process finishing a charge decides on the balance in the
\* copy it loaded, whatever the file holds by then, answers ok:true
\* exactly when the amount does not exceed that balance, and then writes
\* that balance less the amount; so two charges of one player can both
\* load the same balance, both be accepted though their amounts add up to
\* more than it, and leave only one debit in the file.
C11_ChargeNotAtomic ==
  [][\A p \in Procs :
       (pc[p] = "loaded" /\ pc'[p] = "done" /\ preq[p].op = "charge") =>
         /\ presp'[p].ok <=> ChargeAmount(p) <= HeldBalance(p)
         /\ presp'[p].ok =>
              /\ presp'[p].balance = <<HeldBalance(p) - ChargeAmount(p)>>
              /\ Rec(file', Trim(preq[p].username)).balance
                   = HeldBalance(p) - ChargeAmount(p)]_vars

\* Two charges of the same player loaded the same balance, were both
\* answered ok:true with amounts adding up to more than it, and the file
\* holds that balance less one amount, with one new entry.
C11_Witness ==
  \E p, q \in Procs :
    LET u == Trim(preq[p].username)
    IN  /\ p # q /\ pc[p] = "done" /\ pc[q] = "done"
        /\ preq[p].op = "charge" /\ preq[q].op = "charge"
        /\ Trim(preq[q].username) = u
        /\ presp[p].ok /\ presp[q].ok
        /\ HasPlayer(pbase[p], u) /\ HasPlayer(pbase[q], u)
        /\ pbase[p].players[u] = pbase[q].players[u]
        /\ ChargeAmount(p) + ChargeAmount(q) > pbase[p].players[u].balance
        /\ InFile(file, u)
        /\ Rec(file, u).balance
             = pbase[p].players[u].balance - ChargeAmount(p)
        /\ Len(Rec(file, u).history) = Len(pbase[p].players[u].history) + 1

C13_SaveSucceeds ==
  /\ (req.op = "save" /\ LastUser # <<>> /\ ~LastValue.null
        /\ LastValue.n >= 0) =>
       /\ resp = Ok
       /\ Has /\ After.balance = LastValue.n
       /\ IsBaseOf(After.history)
       /\ Last(After.history).game = MANUAL_SAVE
       /\ Last(After.history).delta = 0
       /\ Last(After.history).desc = SESSION_SAVE
  /\ req.op = "save" => resp.error # "INSUFFICIENT_FUNDS"

\* A save of 1500 was accepted for a player a charge had left at 800: no
\* charge or payout of the player accounts for the new balance.
C13_Witness ==
  /\ Accepted({"save"}) /\ Had /\ Prior.balance = 800
  /\ After.balance = 1500 /\ Last(After.history).delta = 0
  /\ Len(After.history) = 3

\* The last request found a file that exists and does not parse.
FoundCorrupt == req # NoRequest /\ prevFile.exists /\ ~prevFile.parses

\* C14: a request that loads a file that exists and does not parse
\* overwrites it with the empty store and goes on from that empty store: it
\* is answered with status 200 as on a server with no player, every player
\* stored before is gone from the file, and the username it names, if its
\* handler creates players, is back as a new record from balance 1000.
C14_ResetOnCorrupt ==
  (FoundCorrupt /\ resp.status # 400) =>
    /\ resp.status = 200 /\ (resp.ok \/ RefusedCharge)
    /\ writes >= 1
    /\ file.exists /\ file.parses /\ file.hasPlayers
    /\ dataCache = Parse(file)
    /\ \A m \in file.members : m.key = LastUser
    /\ req.op \in {"users", "delete"} => file = saveData(EmptyStore)
    /\ req.op = "users" => resp.users = {}
    /\ req.op \in {"profile", "detail", "save", "charge", "payout", "set"} =>
         /\ Has /\ IsAutoCreated(After.history[1])
         /\ Len(After.history) <= 2
         /\ After.balance = CASE Accepted({"save", "set"}) -> LastValue.n
                               [] Accepted({"charge"}) -> 1000 - LastValue.n
                               [] Accepted({"payout"}) -> 1000 + LastValue.n
                               [] OTHER -> 1000
    /\ req.op \in {"profile", "detail"} => resp.balance = <<1000>>

\* With two players stored, the file became unparseable; a profile request
\* for one of them is answered with balance 1000, its record is the
\* default one and the only one in the file, the other player is gone.
C14_Witness ==
  /\ FoundCorrupt /\ req.op = "profile" /\ resp.ok
  /\ resp.balance = <<1000>>
  /\ Has /\ IsDefaultRecord(After)
  /\ file.members = {Member(LastUser, After)}
  /\ \E v \in Usernames \ {LastUser} :
       acct[v] = LostAcct /\ ~InFile(file, v)

\* The members of file f for usernames other than username.
Others(f, username) == {m \in f.members : m.key # username}

\* C15: served one after the other, a profile, user-detail, save, charge,
\* payout, set-balance or delete naming username u leaves in the file the
\* same other usernames with the same balances and the same histories,
\* whatever it is answered; and a users listing leaves the file as it was
\* and writes nothing.
C15_Frame ==
  /\ req # NoRequest => Others(file, LastUser) = Others(prevFile, LastUser)
  /\ req.op = "users" => Untouched /\ dataCache = Parse(file)

\* A delete removed its player while another player, with a history of two
\* entries, stayed as it was.
C15_Witness ==
  /\ req.op = "delete" /\ Had /\ ~Has
  /\ \E m \in Others(file, LastUser) : Len(m.history) = 2
  /\ file # prevFile

\* C16: in one process every handler runs from loadData to saveData as one
\* uninterrupted step: while a handler is between the two nothing else of
\* the process moves and dataCache holds the store that handler loaded,
\* changed at most for the player it names; the file changes only under
\* the running handler; and what a handler leaves (file, dataCache,
\* response) is what the whole handler makes of the file it found, with
\* every other player as found.  So the file after any requests is the
\* result of serving them one at a time in the order of dispatch, and no
\* accepted change is lost.
C16_RunToCompletion ==
  [][/\ \A c \in Procs :
          pc[c] = "loaded" =>
            /\ \A d \in Procs \ {c} :
                 pc'[d] = pc[d] /\ preq'[d] = preq[d] /\ presp'[d] = presp[d]
            /\ \A v \in Usernames \ {Trim(preq[c].username)} :
                 RecordIn(dataCache, v) = RecordIn(pbase[c], v)
            /\ dataCache # pbase[c] =>
                 dataCache = SetPlayer(pbase[c], Trim(preq[c].username),
                                       NewPlayer(now))
     /\ file' # file =>
          \E c \in Procs : pc'[c] = "loaded" \/ pc[c] = "loaded"
     /\ \A c \in Procs :
          (pc[c] = "loaded" /\ pc'[c] = "done") =>
            LET out == Handle(prevFile, pbase[c], preq[c], now)
            IN  /\ file' = out.file
                /\ dataCache' = out.cache
                /\ presp'[c] = out.resp
                /\ Others(file', Trim(preq[c].username))
                     = Others(prevFile, Trim(preq[c].username))]_vars

\* A payout and a profile request for different usernames, in flight
\* together, were both answered ok:true and the file holds both players
\* with the balances answered, the payout's entry included.
C16_Witness ==
  \E c, d \in Procs :
    LET a == Trim(preq[c].username)
        b == Trim(preq[d].username)
    IN  /\ c # d /\ pc[c] = "done" /\ pc[d] = "done"
        /\ preq[c].op = "payout" /\ preq[d].op = "profile"
        /\ presp[c].ok /\ presp[d].ok
        /\ a # b
        /\ InFile(file, a) /\ presp[c].balance = <<Rec(file, a).balance>>
        /\ Last(Rec(file, a).history).delta = parseInteger(preq[c].value).n
        /\ InFile(file, b) /\ presp[d].balance = <<Rec(file, b).balance>>

\* C17: with the loads and writes of several processes interleaved in any
\* way, every balance written to the file is >= 0: the file always parses
\* and holds no negative balance, no process holds one in the store it is
\* about to write, and no accepted request is answered one.
C17_NonNegativeShared ==
  /\ file.parses
  /\ \A m \in file.members : m.balance >= 0
  /\ \A p \in Procs :
       /\ \A u \in DOMAIN pcache[p].players :
            pcache[p].players[u].balance >= 0
       /\ \A i \in 1..Len(presp[p].balance) : presp[p].balance[i] >= 0

\* A charge of a player's whole balance and a payout to the same player
\* raced: the payout was answered 1050, the charge, decided on the 1000 it
\* had loaded, was answered 0 and wrote last; the file holds 0.
C17_Witness ==
  \E p, q \in Procs :
    LET u == Trim(preq[p].username)
    IN  /\ p # q /\ pc[p] = "done" /\ pc[q] = "done"
        /\ preq[p].op = "charge" /\ preq[q].op = "payout"
        /\ Trim(preq[q].username) = u
        /\ presp[p] = OkBalance(0) /\ presp[q] = OkBalance(1050)
        /\ InFile(file, u) /\ Rec(file, u).balance = 0

====
